---- MODULE Spec2Model ----
(***************************************************************************)
(* Model of the testdrop crate (src/src/lib.rs): the TestDrop registry     *)
(* (drops counter + is_dropped table) and the Item handles it mints.       *)
(*                                                                         *)
(* Two TestDrop values live side by side, each at its own address.  An     *)
(* Item is the pair (id, parent) of the source, parent being the address   *)
(* of the TestDrop it borrows.  Every handle of the model also carries its *)
(* lifecycle (live, dropped, leaked) and the registry whose new_item       *)
(* created it; both are bookkeeping of the model, not fields of Item.      *)
(*                                                                         *)
(* A panic is recorded in `last` and the registry keeps the state it had   *)
(* when the panic was raised (the caller may observe it after unwinding).  *)
(* usize arithmetic is modelled without wrap-around: drops and the table   *)
(* length stay below MaxHandles and MaxItems, far from 2^64.               *)
(***************************************************************************)
EXTENDS Integers, Sequences, FiniteSets, TLC

\* Most slots one registry's table grows to.
MaxItems == 2

\* Most Item values (minted or bitwise-duplicated) over a run.
MaxHandles == 3

\* The TestDrop values of the scenario (td1, td2 of tests::item_eq).
Registries == {"td1", "td2"}

\* Memory addresses a TestDrop may live at.  Two values alive at once occupy
\* different addresses; which ones is immaterial to every operation, so Init
\* fixes one such placement.
Addrs == 1..2

\* Ids a caller may pass to assert_drop / assert_no_drop; MaxItems is
\* out of bounds in every state.
Ids == 0..MaxItems

\* Outcomes of an operation: success or the panic it raised.
OK == "ok"
PanicNotDropped == "should be dropped, but was not"
PanicWasDropped == "should not be dropped, but was"
PanicAlreadyDropped == "is already dropped"
PanicOutOfBounds == "index out of bounds"

VARIABLES
    addr,        \* addr[r]: the address of TestDrop r
    drops,       \* drops[r]: TestDrop.drops
    is_dropped,  \* is_dropped[r]: TestDrop.is_dropped, slot of id i at index i+1
    items,       \* every Item value created so far, in creation order
    mintLog,     \* mintLog[r]: per new_item call on r, the id returned and the handle
    last         \* the operation just performed and its result

vars == <<addr, drops, is_dropped, items, mintLog, last>>

----------------------------------------------------------------------------
\* TestDrop

\* TestDrop::num_tracked_items
num_tracked_items(r) == Len(is_dropped[r])

\* TestDrop::num_dropped_items
num_dropped_items(r) == drops[r]

\* TestDrop::is_dropped with a lookup that answers false past the end
\* (a seeded fault).
IsDroppedUnchecked(r, id) ==
    IF id < Len(is_dropped[r])
    THEN [panic |-> FALSE, val |-> is_dropped[r][id + 1]]
    ELSE [panic |-> FALSE, val |-> FALSE]

\* TestDrop::is_dropped: Vec indexing, which panics past the end.
IsDropped(r, id) ==
    IF id < Len(is_dropped[r])
    THEN [panic |-> FALSE, val |-> is_dropped[r][id + 1]]
    ELSE [panic |-> TRUE, val |-> FALSE]

\* TestDrop::assert_drop: the outcome and the id the diagnostic carries.
assert_drop(r, id) ==
    LET d == IsDropped(r, id) IN
    IF d.panic THEN [outcome |-> PanicOutOfBounds, msgId |-> id]
    ELSE IF d.val THEN [outcome |-> OK, msgId |-> id]
    ELSE [outcome |-> PanicNotDropped, msgId |-> id]

\* assert_no_drop failing with the message of assert_drop (a seeded fault).
assert_no_drop_CopiedMsg(r, id) ==
    LET d == IsDropped(r, id) IN
    IF d.panic THEN [outcome |-> PanicOutOfBounds, msgId |-> id]
    ELSE IF ~d.val THEN [outcome |-> OK, msgId |-> id]
    ELSE [outcome |-> PanicNotDropped, msgId |-> id]

\* TestDrop::assert_no_drop
assert_no_drop(r, id) ==
    LET d == IsDropped(r, id) IN
    IF d.panic THEN [outcome |-> PanicOutOfBounds, msgId |-> id]
    ELSE IF ~d.val THEN [outcome |-> OK, msgId |-> id]
    ELSE [outcome |-> PanicWasDropped, msgId |-> id]

\* TestDrop::new (Default): no drops, an empty table.
TestDrop_new == [drops |-> 0, is_dropped |-> <<>>]

\* Item::new
Item_new(id, parent) == [id |-> id, parent |-> parent]

\* Item::id
Item_id(it) == it.id

\* PartialEq for Item comparing the ids alone (a seeded fault).
Item_eq_IdOnly(a, b) == Item_id(a) = Item_id(b)

\* PartialEq for Item
Item_eq(a, b) == Item_id(a) = Item_id(b) /\ a.parent = b.parent

\* A dereference that ignores which TestDrop the reference points to, as if
\* every Item reported to one shared registry (a seeded fault).
Deref_Shared(parent) == CHOOSE r \in Registries : TRUE

\* The TestDrop an Item's parent reference points to.
Deref(parent) == CHOOSE r \in Registries : addr[r] = parent

\* new_item taking the number of items not yet dropped as the id, so that the
\* id of a dropped item is handed out again (a seeded fault).
new_item_ReuseId(r) ==
    LET id == num_tracked_items(r) - num_dropped_items(r) IN
    [id |-> id,
     item |-> Item_new(id, addr[r]),
     is_dropped |-> Append(is_dropped[r], FALSE)]

\* new_item pushing true for the new slot (a seeded fault).
new_item_PushTrue(r) ==
    LET id == num_tracked_items(r) IN
    [id |-> id,
     item |-> Item_new(id, addr[r]),
     is_dropped |-> Append(is_dropped[r], TRUE)]

\* new_item rebuilding the table as all-false, one slot longer
\* (a seeded fault).
new_item_Reset(r) ==
    LET id == num_tracked_items(r) IN
    [id |-> id,
     item |-> Item_new(id, addr[r]),
     is_dropped |-> [i \in 1..(id + 1) |-> FALSE]]

\* new_item reading the table length after the push (a seeded fault).
new_item_IdAfterPush(r) ==
    LET id == num_tracked_items(r) + 1 IN
    [id |-> id,
     item |-> Item_new(id, addr[r]),
     is_dropped |-> Append(is_dropped[r], FALSE)]

\* TestDrop::new_item: the id returned, the Item returned and the table after
\* the push.
new_item(r) ==
    LET id == num_tracked_items(r) IN
    [id |-> id,
     item |-> Item_new(id, addr[r]),
     is_dropped |-> Append(is_dropped[r], FALSE)]

\* add_drop counting the drop before it checks the slot (a seeded fault).
add_drop_CountFirst(r, id) ==
    LET d == IsDropped(r, id) IN
    IF d.panic
    THEN [outcome |-> PanicOutOfBounds, msgId |-> id,
          is_dropped |-> is_dropped[r], drops |-> drops[r]]
    ELSE IF d.val
    THEN [outcome |-> PanicAlreadyDropped, msgId |-> id,
          is_dropped |-> is_dropped[r], drops |-> num_dropped_items(r) + 1]
    ELSE [outcome |-> OK, msgId |-> id,
          is_dropped |-> [is_dropped[r] EXCEPT ![id + 1] = TRUE],
          drops |-> num_dropped_items(r) + 1]

\* add_drop without the already-dropped check (a seeded fault).
add_drop_NoGuard(r, id) ==
    LET d == IsDropped(r, id) IN
    IF d.panic
    THEN [outcome |-> PanicOutOfBounds, msgId |-> id,
          is_dropped |-> is_dropped[r], drops |-> drops[r]]
    ELSE [outcome |-> OK, msgId |-> id,
          is_dropped |-> [is_dropped[r] EXCEPT ![id + 1] = TRUE],
          drops |-> num_dropped_items(r) + 1]

\* add_drop that counts the drop and leaves the slot as it was (a seeded fault).
add_drop_NoMark(r, id) ==
    LET d == IsDropped(r, id) IN
    IF d.panic
    THEN [outcome |-> PanicOutOfBounds, msgId |-> id,
          is_dropped |-> is_dropped[r], drops |-> drops[r]]
    ELSE IF d.val
    THEN [outcome |-> PanicAlreadyDropped, msgId |-> id,
          is_dropped |-> is_dropped[r], drops |-> drops[r]]
    ELSE [outcome |-> OK, msgId |-> id,
          is_dropped |-> is_dropped[r],
          drops |-> num_dropped_items(r) + 1]

\* add_drop storing id + 1 in the counter instead of incrementing it
\* (a seeded fault).
add_drop_SetToId(r, id) ==
    LET d == IsDropped(r, id) IN
    IF d.panic
    THEN [outcome |-> PanicOutOfBounds, msgId |-> id,
          is_dropped |-> is_dropped[r], drops |-> drops[r]]
    ELSE IF d.val
    THEN [outcome |-> PanicAlreadyDropped, msgId |-> id,
          is_dropped |-> is_dropped[r], drops |-> drops[r]]
    ELSE [outcome |-> OK, msgId |-> id,
          is_dropped |-> [is_dropped[r] EXCEPT ![id + 1] = TRUE],
          drops |-> id + 1]

\* add_drop marking the last slot of the table instead of slot id
\* (a seeded fault).
add_drop_LastSlot(r, id) ==
    LET d == IsDropped(r, id) IN
    IF d.panic
    THEN [outcome |-> PanicOutOfBounds, msgId |-> id,
          is_dropped |-> is_dropped[r], drops |-> drops[r]]
    ELSE IF d.val
    THEN [outcome |-> PanicAlreadyDropped, msgId |-> id,
          is_dropped |-> is_dropped[r], drops |-> drops[r]]
    ELSE [outcome |-> OK, msgId |-> id,
          is_dropped |-> [is_dropped[r] EXCEPT ![Len(is_dropped[r])] = TRUE],
          drops |-> num_dropped_items(r) + 1]

\* add_drop flipping the slot instead of setting it, with no check
\* (a seeded fault).
add_drop_Toggle(r, id) ==
    LET d == IsDropped(r, id) IN
    IF d.panic
    THEN [outcome |-> PanicOutOfBounds, msgId |-> id,
          is_dropped |-> is_dropped[r], drops |-> drops[r]]
    ELSE [outcome |-> OK, msgId |-> id,
          is_dropped |-> [is_dropped[r] EXCEPT ![id + 1] = ~d.val],
          drops |-> num_dropped_items(r) + 1]

\* add_drop marking the slot without counting the drop (a seeded fault).
add_drop_NoCount(r, id) ==
    LET d == IsDropped(r, id) IN
    IF d.panic
    THEN [outcome |-> PanicOutOfBounds, msgId |-> id,
          is_dropped |-> is_dropped[r], drops |-> drops[r]]
    ELSE IF d.val
    THEN [outcome |-> PanicAlreadyDropped, msgId |-> id,
          is_dropped |-> is_dropped[r], drops |-> drops[r]]
    ELSE [outcome |-> OK, msgId |-> id,
          is_dropped |-> [is_dropped[r] EXCEPT ![id + 1] = TRUE],
          drops |-> num_dropped_items(r)]

\* TestDrop::add_drop: the outcome, the id of the diagnostic, and the table
\* and the counter it leaves.
add_drop(r, id) ==
    LET d == IsDropped(r, id) IN
    IF d.panic
    THEN [outcome |-> PanicOutOfBounds, msgId |-> id,
          is_dropped |-> is_dropped[r], drops |-> drops[r]]
    ELSE IF d.val
    THEN [outcome |-> PanicAlreadyDropped, msgId |-> id,
          is_dropped |-> is_dropped[r], drops |-> drops[r]]
    ELSE [outcome |-> OK, msgId |-> id,
          is_dropped |-> [is_dropped[r] EXCEPT ![id + 1] = TRUE],
          drops |-> num_dropped_items(r) + 1]

\* Drop for Item
Item_drop(it) == add_drop(Deref(it.parent), it.id)

----------------------------------------------------------------------------
\* The record of the operation just performed.
Result(op, reg, h, h2, arg, ret, flag, outcome, msgId) ==
    [op |-> op, reg |-> reg, h |-> h, h2 |-> h2, arg |-> arg, ret |-> ret,
     flag |-> flag, outcome |-> outcome, msgId |-> msgId]

Handles == 1..Len(items)

Live(h) == items[h].st = "live"

Init ==
    /\ addr = CHOOSE f \in [Registries -> Addrs] :
                    \A r1, r2 \in Registries : r1 # r2 => f[r1] # f[r2]
    /\ drops = [r \in Registries |-> TestDrop_new.drops]
    /\ is_dropped = [r \in Registries |-> TestDrop_new.is_dropped]
    /\ items = <<>>
    /\ mintLog = [r \in Registries |-> <<>>]
    /\ last = Result("new", "-", 0, 0, 0, 0, FALSE, OK, 0)

\* let (id, item) = td.new_item();
NewItem(r) ==
    /\ num_tracked_items(r) < MaxItems
    /\ Len(items) < MaxHandles
    /\ LET n == new_item(r)
           h == Len(items) + 1 IN
       /\ is_dropped' = [is_dropped EXCEPT ![r] = n.is_dropped]
       /\ items' = Append(items, [item |-> n.item, minter |-> r, st |-> "live"])
       /\ mintLog' = [mintLog EXCEPT ![r] = Append(@, [id |-> n.id, h |-> h])]
       /\ last' = Result("new_item", r, h, 0, 0, n.id, FALSE, OK, 0)
    /\ UNCHANGED <<addr, drops>>

\* drop(item), or the item going out of scope: the destructor of handle h runs.
DropItem(h) ==
    /\ Live(h)
    /\ LET it == items[h].item
           r == Deref(it.parent)
           d == Item_drop(it) IN
       /\ is_dropped' = [is_dropped EXCEPT ![r] = d.is_dropped]
       /\ drops' = [drops EXCEPT ![r] = d.drops]
       /\ items' = [items EXCEPT ![h].st = "dropped"]
       /\ last' = Result("drop", r, h, 0, it.id, 0, FALSE, d.outcome, d.msgId)
    /\ UNCHANGED <<addr, mintLog>>

\* mem::forget(item): the handle is gone and its destructor never runs.
Forget(h) ==
    /\ Live(h)
    /\ items' = [items EXCEPT ![h].st = "leaked"]
    /\ last' = Result("forget", items[h].minter, h, 0, items[h].item.id, 0, FALSE, OK, 0)
    /\ UNCHANGED <<addr, drops, is_dropped, mintLog>>

\* unsafe { ptr::read(&item) }: a second Item value with the same bits.
PtrRead(h) ==
    /\ Live(h)
    /\ Len(items) < MaxHandles
    /\ items' = Append(items, [item |-> items[h].item,
                               minter |-> items[h].minter, st |-> "live"])
    /\ last' = Result("ptr_read", items[h].minter, h, Len(items) + 1,
                      items[h].item.id, 0, FALSE, OK, 0)
    /\ UNCHANGED <<addr, drops, is_dropped, mintLog>>

\* td.assert_drop(id) that marks the slot it found not dropped
\* (a seeded fault).
AssertDrop_Marks(r, id) ==
    /\ LET a == assert_drop(r, id) IN
       /\ last' = Result("assert_drop", r, 0, 0, id, 0, FALSE, a.outcome, a.msgId)
       /\ is_dropped' = IF a.outcome = PanicNotDropped
                        THEN [is_dropped EXCEPT ![r][id + 1] = TRUE]
                        ELSE is_dropped
    /\ UNCHANGED <<addr, drops, items, mintLog>>

\* td.assert_drop(id)
AssertDrop(r, id) ==
    /\ LET a == assert_drop(r, id) IN
       last' = Result("assert_drop", r, 0, 0, id, 0, FALSE, a.outcome, a.msgId)
    /\ UNCHANGED <<addr, drops, is_dropped, items, mintLog>>

\* td.assert_no_drop(id)
AssertNoDrop(r, id) ==
    /\ LET a == assert_no_drop(r, id) IN
       last' = Result("assert_no_drop", r, 0, 0, id, 0, FALSE, a.outcome, a.msgId)
    /\ UNCHANGED <<addr, drops, is_dropped, items, mintLog>>

\* td.num_tracked_items()
NumTracked(r) ==
    /\ last' = Result("num_tracked_items", r, 0, 0, 0, num_tracked_items(r), FALSE, OK, 0)
    /\ UNCHANGED <<addr, drops, is_dropped, items, mintLog>>

\* td.num_dropped_items()
NumDropped(r) ==
    /\ last' = Result("num_dropped_items", r, 0, 0, 0, num_dropped_items(r), FALSE, OK, 0)
    /\ UNCHANGED <<addr, drops, is_dropped, items, mintLog>>

\* item.id()
ItemId(h) ==
    /\ Live(h)
    /\ last' = Result("id", items[h].minter, h, 0, 0, Item_id(items[h].item), FALSE, OK, 0)
    /\ UNCHANGED <<addr, drops, is_dropped, items, mintLog>>

\* a == b
ItemEq(h1, h2) ==
    /\ Live(h1)
    /\ Live(h2)
    /\ last' = Result("eq", items[h1].minter, h1, h2, 0, 0,
                      Item_eq(items[h1].item, items[h2].item), OK, 0)
    /\ UNCHANGED <<addr, drops, is_dropped, items, mintLog>>

Next ==
    \/ \E r \in Registries : NewItem(r)
    \/ \E h \in Handles : DropItem(h)
    \/ \E h \in Handles : Forget(h)
    \/ \E h \in Handles : PtrRead(h)
    \/ \E r \in Registries, id \in Ids : AssertDrop(r, id)
    \/ \E r \in Registries, id \in Ids : AssertNoDrop(r, id)
    \/ \E r \in Registries : NumTracked(r)
    \/ \E r \in Registries : NumDropped(r)
    \/ \E h \in Handles : ItemId(h)
    \/ \E h1, h2 \in Handles : ItemEq(h1, h2)

Spec == Init /\ [][Next]_vars

----------------------------------------------------------------------------
\* Helpers of the properties.

\* The slots of registry r that are true.
TrueSlots(r) == {i \in 1..Len(is_dropped[r]) : is_dropped[r][i]}

\* Handles g and h are the same Item value (h minted, g read from it, ...).
SameItem(g, h) == items[g].item = items[h].item

\* The destructor of some handle of h's Item has run.
Destructed(h) == \E g \in Handles : SameItem(g, h) /\ items[g].st = "dropped"

\* Handle h is leaked and no copy of its Item is left to be destructed or
\* was destructed: the Item's destruction never runs.
Leaked(h) ==
    /\ items[h].st = "leaked"
    /\ \A g \in Handles : SameItem(g, h) => items[g].st = "leaked"

----------------------------------------------------------------------------
\* C1: in every reachable state num_dropped_items() of a registry equals the
\* number of true entries of its is_dropped table.
C1_DropsCountsTrueSlots ==
    \A r \in Registries : num_dropped_items(r) = Cardinality(TrueSlots(r))

\* A double drop was just rejected in a registry with one dropped item and
\* one that is not.
C1_Witness ==
    /\ last.op = "drop"
    /\ last.outcome = PanicAlreadyDropped
    /\ num_dropped_items(last.reg) = 1
    /\ num_tracked_items(last.reg) = 2

\* C2: the drop of an Item fails, with "is already dropped" naming the id,
\* exactly when the destructor of another handle of the same Item ran before;
\* the first drop of an id succeeds.
C2_DoubleDropFailsSecondOnly ==
    last.op = "drop" =>
        LET h == last.h
            prior == \E g \in Handles \ {h} :
                        SameItem(g, h) /\ items[g].st = "dropped" IN
        IF prior
        THEN last.outcome = PanicAlreadyDropped /\ last.msgId = items[h].item.id
        ELSE last.outcome = OK

\* The second destruction of id 0 has just failed, the first having succeeded.
C2_Witness ==
    /\ last.op = "drop"
    /\ last.outcome = PanicAlreadyDropped
    /\ last.msgId = 0
    /\ \E g \in Handles \ {last.h} : SameItem(g, last.h) /\ items[g].st = "dropped"
    /\ drops[last.reg] = 1

\* C3: the k-th new_item call of a registry (from 0) returned id k and an Item
\* whose id() is k, whatever was dropped in between.
C3_IdsInMintOrder ==
    \A r \in Registries : \A k \in 1..Len(mintLog[r]) :
        /\ mintLog[r][k].id = k - 1
        /\ Item_id(items[mintLog[r][k].h].item) = k - 1

\* The second item of a registry was just minted after the first was dropped.
C3_Witness ==
    /\ last.op = "new_item"
    /\ last.ret = 1
    /\ Len(mintLog[last.reg]) = 2
    /\ items[mintLog[last.reg][1].h].st = "dropped"
    /\ Item_id(items[last.h].item) = 1

\* C4: right after the first drop of the Item with id i, assert_drop(i)
\* succeeds and assert_no_drop(i) fails.
C4_AfterDropAsserts ==
    (last.op = "drop" /\ last.outcome = OK) =>
        /\ assert_drop(last.reg, last.arg).outcome = OK
        /\ assert_no_drop(last.reg, last.arg).outcome = PanicWasDropped
        /\ assert_no_drop(last.reg, last.arg).msgId = last.arg

\* Item 1 was just dropped for the first time while item 0 is still live.
C4_Witness ==
    /\ last.op = "drop"
    /\ last.outcome = OK
    /\ last.arg = 1
    /\ \E g \in Handles : items[g].minter = last.reg /\ items[g].item.id = 0 /\ Live(g)

\* C5: for a minted Item none of whose handles was destructed,
\* assert_no_drop(id) succeeds and assert_drop(id) fails, whatever else was
\* minted or dropped.
C5_NotDroppedAsserts ==
    \A h \in Handles :
        ~Destructed(h) =>
            /\ assert_no_drop(items[h].minter, items[h].item.id).outcome = OK
            /\ assert_drop(items[h].minter, items[h].item.id).outcome = PanicNotDropped

\* assert_no_drop(0) just succeeded for a live item 0 whose registry has
\* dropped another item.
C5_Witness ==
    /\ last.op = "assert_no_drop"
    /\ last.outcome = OK
    /\ last.arg = 0
    /\ num_dropped_items(last.reg) = 1
    /\ \E h \in Handles :
          items[h].minter = last.reg /\ items[h].item.id = 0 /\ Live(h)

\* C6: a successful Item drop increases num_dropped_items() of its registry
\* by exactly 1, and no step decreases num_dropped_items().
C6_DropsGrowByOne ==
    [][/\ \A r \in Registries : num_dropped_items(r)' >= num_dropped_items(r)
       /\ \A r \in Registries :
             (last'.op = "drop" /\ last'.outcome = OK /\ last'.reg = r) =>
                num_dropped_items(r)' = num_dropped_items(r) + 1]_vars

\* Item 0 was just dropped after item 1 of the same registry.
C6_Witness ==
    /\ last.op = "drop"
    /\ last.outcome = OK
    /\ last.arg = 0
    /\ num_dropped_items(last.reg) = 2

\* C7: an Item that is leaked stays leaked, and assert_no_drop(id) succeeds
\* for it in every state from the leak on.
C7_LeakedStaysNotDropped ==
    [][\A h \in 1..Len(items') :
          /\ (h \in Handles /\ Leaked(h)) => Leaked(h)'
          /\ Leaked(h)' =>
                assert_no_drop(items[h].minter, items[h].item.id).outcome' = OK]_vars

\* assert_no_drop just succeeded for a leaked item after a later item of the
\* same registry was minted and dropped.
C7_Witness ==
    /\ last.op = "assert_no_drop"
    /\ last.outcome = OK
    /\ \E h, g \in Handles :
          /\ Leaked(h)
          /\ items[h].minter = last.reg
          /\ items[h].item.id = last.arg
          /\ g > h
          /\ items[g].minter = last.reg
          /\ items[g].st = "dropped"
          /\ ~SameItem(g, h)

\* C8: a slot that is true stays true in the next state, and assert_drop of
\* its id succeeds there.
C8_DroppedStaysDropped ==
    [][\A r \in Registries : \A i \in TrueSlots(r) :
          /\ i <= Len(is_dropped'[r])
          /\ is_dropped'[r][i]
          /\ assert_drop(r, i - 1).outcome' = OK]_vars

\* assert_drop(0) just succeeded in a registry that minted item 1 after item
\* 0 was dropped.
C8_Witness ==
    /\ last.op = "assert_drop"
    /\ last.outcome = OK
    /\ last.arg = 0
    /\ Len(mintLog[last.reg]) = 2
    /\ \E g \in Handles :
          /\ items[g].minter = last.reg
          /\ items[g].item.id = 0
          /\ items[g].st = "dropped"
          /\ g < mintLog[last.reg][2].h

\* C9: == on two Items answers true exactly when they have the same id and
\* were minted by the same registry; it is reflexive and symmetric, and items
\* with id 0 of two registries are not equal.
C9_EqIffSameIdAndRegistry ==
    /\ last.op = "eq" =>
          (last.flag <=> /\ items[last.h].item.id = items[last.h2].item.id
                         /\ items[last.h].minter = items[last.h2].minter)
    /\ \A a, b \in Handles :
          /\ Item_eq(items[a].item, items[a].item)
          /\ Item_eq(items[a].item, items[b].item) <=> Item_eq(items[b].item, items[a].item)
          /\ (/\ items[a].item.id = 0
              /\ items[b].item.id = 0
              /\ items[a].minter # items[b].minter) =>
                 ~Item_eq(items[a].item, items[b].item)

\* Items with id 0 of two registries were just compared and found different.
C9_Witness ==
    /\ last.op = "eq"
    /\ ~last.flag
    /\ items[last.h].item.id = 0
    /\ items[last.h2].item.id = 0
    /\ items[last.h].minter # items[last.h2].minter

\* C10: assert_drop(id) and assert_no_drop(id) with id >= num_tracked_items()
\* fail out of bounds, in every state.
C10_OutOfRangeIdPanics ==
    /\ (/\ last.op \in {"assert_drop", "assert_no_drop"}
        /\ last.arg >= num_tracked_items(last.reg)) =>
           (last.outcome = PanicOutOfBounds /\ last.msgId = last.arg)
    /\ \A r \in Registries : \A id \in Ids :
          id >= num_tracked_items(r) =>
             /\ assert_drop(r, id).outcome = PanicOutOfBounds
             /\ assert_no_drop(r, id).outcome = PanicOutOfBounds

\* assert_no_drop was just called with the id one past the last minted one.
C10_Witness ==
    /\ last.op = "assert_no_drop"
    /\ last.outcome = PanicOutOfBounds
    /\ num_tracked_items(last.reg) = 1
    /\ last.arg = 1

\* C11: once every Item minted from a registry has been dropped exactly once,
\* in any order, num_dropped_items() = num_tracked_items() = the number of
\* new_item calls.
C11_AllDroppedCountsAgree ==
    \A r \in Registries :
        (\A k \in 1..Len(mintLog[r]) :
            Cardinality({g \in Handles :
                            /\ SameItem(g, mintLog[r][k].h)
                            /\ items[g].st = "dropped"}) = 1) =>
            /\ num_dropped_items(r) = Len(mintLog[r])
            /\ num_tracked_items(r) = Len(mintLog[r])

\* Both items minted from a registry are dropped, each once, and
\* num_dropped_items() was just read as 2.
C11_Witness ==
    /\ last.op = "num_dropped_items"
    /\ last.ret = 2
    /\ Len(mintLog[last.reg]) = 2
    /\ \E g1, g2 \in Handles :
          /\ g1 = mintLog[last.reg][1].h
          /\ g2 = mintLog[last.reg][2].h
          /\ items[g1].st = "dropped"
          /\ items[g2].st = "dropped"

\* C12: the drop of the Item with id i leaves num_tracked_items() and every
\* slot other than i of its registry as they were.
C12_DropTouchesOnlyItsSlot ==
    [][last'.op = "drop" =>
          \A r \in Registries :
             last'.reg = r =>
                /\ num_tracked_items(r)' = num_tracked_items(r)
                /\ \A j \in 1..Len(is_dropped[r]) :
                      j # last'.arg + 1 => is_dropped'[r][j] = is_dropped[r][j]]_vars

\* Item 0 of two was just dropped and item 1 is not dropped.
C12_Witness ==
    /\ last.op = "drop"
    /\ last.outcome = OK
    /\ last.arg = 0
    /\ is_dropped[last.reg] = <<TRUE, FALSE>>
    /\ num_dropped_items(last.reg) = 1

\* C13: new_item succeeds, appends exactly one false slot (num_tracked_items()
\* grows by 1) and leaves num_dropped_items() and every earlier slot as they
\* were, also after drops.
C13_NewItemAppendsOneSlot ==
    [][last'.op = "new_item" =>
          \A r \in Registries :
             last'.reg = r =>
                /\ last'.outcome = OK
                /\ num_tracked_items(r)' = num_tracked_items(r) + 1
                /\ is_dropped'[r][num_tracked_items(r) + 1] = FALSE
                /\ \A j \in 1..Len(is_dropped[r]) :
                      is_dropped'[r][j] = is_dropped[r][j]
                /\ num_dropped_items(r)' = num_dropped_items(r)
                /\ \A id \in Ids :
                      last'.ret = id => assert_no_drop(r, id).outcome' = OK]_vars

\* An item was just minted in a registry whose item 0 is dropped.
C13_Witness ==
    /\ last.op = "new_item"
    /\ last.outcome = OK
    /\ is_dropped[last.reg] = <<TRUE, FALSE>>
    /\ num_dropped_items(last.reg) = 1

\* C14: num_tracked_items(), num_dropped_items(), assert_drop and
\* assert_no_drop leave the table and the counter of every registry as they
\* were, whether they pass or fail; after a failed assert the drop of a live,
\* not yet destructed Item still succeeds.
C14_QueriesAndAssertsArePure ==
    [][last'.op \in {"num_tracked_items", "num_dropped_items",
                     "assert_drop", "assert_no_drop"} =>
          /\ is_dropped' = is_dropped
          /\ drops' = drops
          /\ items' = items
          /\ last'.outcome # OK =>
                \A h \in Handles :
                   (Live(h) /\ ~Destructed(h)) =>
                      Item_drop(items[h].item).outcome' = OK]_vars

\* assert_drop(0) just failed for a live item 0 whose registry has another,
\* dropped item.
C14_Witness ==
    /\ last.op = "assert_drop"
    /\ last.outcome = PanicNotDropped
    /\ last.arg = 0
    /\ is_dropped[last.reg] = <<FALSE, TRUE>>
    /\ \E h \in Handles :
          items[h].minter = last.reg /\ items[h].item.id = 0 /\ Live(h)

\* C15: assert_drop(id) on a slot that is false fails with "should be
\* dropped, but was not", assert_no_drop(id) on a slot that is true fails with
\* "should not be dropped, but was"; both diagnostics carry the id passed and
\* the two texts differ.
C15_AssertDiagnostics ==
    /\ PanicNotDropped # PanicWasDropped
    /\ (/\ last.op = "assert_drop"
        /\ last.arg < num_tracked_items(last.reg)
        /\ ~is_dropped[last.reg][last.arg + 1]) =>
           (last.outcome = PanicNotDropped /\ last.msgId = last.arg)
    /\ (/\ last.op = "assert_no_drop"
        /\ last.arg < num_tracked_items(last.reg)
        /\ is_dropped[last.reg][last.arg + 1]) =>
           (last.outcome = PanicWasDropped /\ last.msgId = last.arg)
    /\ (last.op = "assert_drop" /\ last.outcome # OK) =>
           (last.outcome \in {PanicNotDropped, PanicOutOfBounds}
            /\ last.msgId = last.arg)
    /\ (last.op = "assert_no_drop" /\ last.outcome # OK) =>
           (last.outcome \in {PanicWasDropped, PanicOutOfBounds}
            /\ last.msgId = last.arg)

\* assert_no_drop(1) just failed, naming id 1.
C15_Witness ==
    /\ last.op = "assert_no_drop"
    /\ last.outcome = PanicWasDropped
    /\ last.arg = 1
    /\ last.msgId = 1

\* C16: a rejected double drop leaves the table and the counter of every
\* registry as they were, and num_dropped_items() counts the ids with a
\* destructed Item, each once.
C16_RejectedDropChangesNothing ==
    [][/\ (last'.op = "drop" /\ last'.outcome = PanicAlreadyDropped) =>
             (is_dropped' = is_dropped /\ drops' = drops)
       /\ \A r \in Registries :
             num_dropped_items(r)' =
                Cardinality({items'[h].item.id : h \in
                    {g \in 1..Len(items') :
                        items'[g].minter = r /\ items'[g].st = "dropped"}})]_vars

\* The copy of item 1 was just dropped after item 1 itself, and rejected.
C16_Witness ==
    /\ last.op = "drop"
    /\ last.outcome = PanicAlreadyDropped
    /\ last.arg = 1
    /\ is_dropped[last.reg] = <<FALSE, TRUE>>
    /\ num_dropped_items(last.reg) = 1

\* C17: num_dropped_items() <= num_tracked_items() in every reachable state.
C17_DroppedAtMostTracked ==
    \A r \in Registries : num_dropped_items(r) <= num_tracked_items(r)

\* Every tracked item of a registry is dropped and a further drop of one of
\* them was just rejected.
C17_Witness ==
    /\ last.op = "drop"
    /\ last.outcome = PanicAlreadyDropped
    /\ num_tracked_items(last.reg) >= 1
    /\ num_dropped_items(last.reg) = num_tracked_items(last.reg)

\* C18: the id of every Item that exists is below num_tracked_items() of the
\* registry that minted it, which is the registry its parent points to; an
\* Item drop ends as a success or as a double drop, never out of bounds.
C18_ItemIdsInRange ==
    /\ \A h \in Handles :
          /\ Deref(items[h].item.parent) = items[h].minter
          /\ Item_id(items[h].item) < num_tracked_items(items[h].minter)
          /\ Live(h) => Item_drop(items[h].item).outcome \in {OK, PanicAlreadyDropped}
    /\ last.op = "drop" => last.outcome \in {OK, PanicAlreadyDropped}

\* The item with the highest id of its registry was just dropped.
C18_Witness ==
    /\ last.op = "drop"
    /\ last.outcome = OK
    /\ num_tracked_items(last.reg) = 2
    /\ last.arg = num_tracked_items(last.reg) - 1

\* C19: a new_item on, or the drop of an Item minted by, registry A leaves the
\* table and the counter of every other registry unchanged, also when both
\* registries track the same id.
C19_RegistriesIndependent ==
    [][last'.op \in {"new_item", "drop"} =>
          \A a, b \in Registries :
             (items'[last'.h].minter = a /\ b # a) =>
                /\ is_dropped'[b] = is_dropped[b]
                /\ num_dropped_items(b)' = num_dropped_items(b)]_vars

\* Item 0 of one registry was just dropped while item 0 of the other registry
\* is live and not dropped.
C19_Witness ==
    /\ last.op = "drop"
    /\ last.outcome = OK
    /\ last.arg = 0
    /\ \E b \in Registries \ {last.reg} :
          /\ num_tracked_items(b) >= 1
          /\ ~is_dropped[b][1]
          /\ \E g \in Handles :
                items[g].minter = b /\ items[g].item.id = 0 /\ Live(g)

====
